---- MODULE Spec2Model ----
(***************************************************************************)
(* A model of the lsystem crate (src/src/lib.rs): the MapRules lookup      *)
(* table and the LSystem rewriting engine whose Iterator::next splices     *)
(* productions into its state in place.                                    *)
(*                                                                         *)
(* Vec<T> is a sequence; a Vec index i (0-based) is position i + 1.        *)
(* Option<X> is a sequence of length 0 (None) or 1 (Some(x)).              *)
(***************************************************************************)
EXTENDS Integers, Sequences, FiniteSets, TLC

VARIABLES productions, setLog, ret, inAxiom, sys, hist, seen, first, old, scan, lastOp, wasReset

vars == <<productions, setLog, ret, inAxiom, sys, hist, seen, first, old, scan, lastOp, wasReset>>

ruleVars == <<productions, setLog, ret>>

engineVars == <<inAxiom, sys, hist, seen, first, old, scan, lastOp, wasReset>>

(***************************************************************************)
(* Bounds of the model.                                                    *)
(***************************************************************************)
\* longest production of a rule set an engine is built from
MaxProd == 2

\* longest axiom an engine is built from
MaxAxiom == 2

\* next is called only on a state of at most this many atoms
MaxLen == 5

\* most calls of next on one engine since its construction or last reset
MaxCalls == 4

\* most calls of MapRules::set on one rule set
MaxSets == 3

\* longest sequence given to MapRules::set
MaxSetLen == 1

\* the alphabet T
Atoms == {"A", "B"}

\* the two engines that are built from the same rule set and axiom
Engines == {1, 2}

RECURSIVE SeqsUpTo(_)
SeqsUpTo(n) == IF n = 0 THEN {<<>>} ELSE SeqsUpTo(n - 1) \cup [1..n -> Atoms]

\* every rule set with productions of at most MaxProd atoms
RuleSets == UNION {[D -> SeqsUpTo(MaxProd)] : D \in SUBSET Atoms}

(***************************************************************************)
(* Option<X>                                                               *)
(***************************************************************************)
None == <<>>

Some(x) == <<x>>

IsSome(o) == Len(o) = 1

Unwrap(o) == o[1]

(***************************************************************************)
(* MapRules<T>: productions is the HashMap<T, Vec<T>>, a function whose    *)
(* domain is the set of keys.                                              *)
(***************************************************************************)
\* HashMap::new()
MapRules_new == [k \in {} |-> <<>>]

\* HashMap::insert(k, v): the old value of k, and the map with k bound to v
HashMap_insert(m, k, v) ==
    [old |-> IF k \in DOMAIN m THEN Some(m[k]) ELSE None,
     map |-> [x \in (DOMAIN m) \cup {k} |-> IF x = k THEN v ELSE m[x]]]

\* a set that keeps the production an atom already has (entry().or_insert)
MapRules_set_KeepFirst(m, k, v) ==
    [old |-> IF k \in DOMAIN m THEN Some(m[k]) ELSE None,
     map |-> [x \in (DOMAIN m) \cup {k} |-> IF x \in DOMAIN m THEN m[x] ELSE v]]

\* MapRules::set(k, v)
MapRules_set(m, k, v) == HashMap_insert(m, k, v)

\* a map that takes an empty production for a missing one
MapRules_map_EmptyIsNone(m, input) ==
    IF input \in DOMAIN m /\ m[input] # <<>> THEN Some(m[input]) ELSE None

\* MapRules::map(input): a clone of the stored production, or None
MapRules_map(m, input) == IF input \in DOMAIN m THEN Some(m[input]) ELSE None

(***************************************************************************)
(* Vec<T>::remove(i) and Vec<T>::insert(i, a), i a 0-based index.          *)
(***************************************************************************)
\* a remove that is off by one: it takes out the element after index i
VecRemove_OffByOne(v, i) ==
    IF i + 1 < Len(v) THEN SubSeq(v, 1, i + 1) \o SubSeq(v, i + 3, Len(v))
    ELSE SubSeq(v, 1, i) \o SubSeq(v, i + 2, Len(v))

VecRemove(v, i) == SubSeq(v, 1, i) \o SubSeq(v, i + 2, Len(v))

\* an insert that overwrites the element at i (v[i] = a), pushing at the end
VecInsert_Overwrite(v, i, a) ==
    IF i < Len(v) THEN [v EXCEPT ![i + 1] = a] ELSE Append(v, a)

VecInsert(v, i, a) == SubSeq(v, 1, i) \o <<a>> \o SubSeq(v, i + 1, Len(v))

\* one step of the scan, as recorded in the trace of a call of next
Event(op, i, st, atom) == [op |-> op, i |-> i, len |-> Len(st), atom |-> atom]

(***************************************************************************)
(* LSystem::next, the body of `for a in atoms.into_iter()`: each atom of   *)
(* the production is inserted at the cursor, which moves one to the right. *)
(***************************************************************************)
\* the splice with the cursor moved only after the loop: every atom of the
\* production is inserted at the same index, which reverses the production
RECURSIVE InsertAll_FixedCursor(_, _, _, _)
InsertAll_FixedCursor(st, i, atoms, tr) ==
    IF atoms = <<>>
    THEN [state |-> st, i |-> i, trace |-> tr, panic |-> FALSE]
    ELSE LET r == InsertAll_FixedCursor(VecInsert(st, i, Head(atoms)), i, Tail(atoms),
                                        Append(tr, Event("insert", i, st, Head(atoms))))
         IN  [r EXCEPT !.i = @ + 1]

\* the splice with every atom inserted one place after the cursor
RECURSIVE InsertAll_OffByOne(_, _, _, _)
InsertAll_OffByOne(st, i, atoms, tr) ==
    IF atoms = <<>>
    THEN [state |-> st, i |-> i, trace |-> tr, panic |-> FALSE]
    ELSE IF i + 1 > Len(st)
    THEN [state |-> st, i |-> i, panic |-> TRUE,
          trace |-> Append(tr, Event("panic", i + 1, st, Head(atoms)))]
    ELSE InsertAll_OffByOne(VecInsert(st, i + 1, Head(atoms)), i + 1, Tail(atoms),
                            Append(tr, Event("insert", i + 1, st, Head(atoms))))

\* Vec::insert panics when the index is greater than the length: the call of
\* next then ends there, with the state as spliced so far
RECURSIVE InsertAll(_, _, _, _)
InsertAll(st, i, atoms, tr) ==
    IF atoms = <<>>
    THEN [state |-> st, i |-> i, trace |-> tr, panic |-> FALSE]
    ELSE IF i > Len(st)
    THEN [state |-> st, i |-> i, panic |-> TRUE,
          trace |-> Append(tr, Event("panic", i, st, Head(atoms)))]
    ELSE InsertAll(VecInsert(st, i, Head(atoms)), i + 1, Tail(atoms),
                   Append(tr, Event("insert", i, st, Head(atoms))))

(***************************************************************************)
(* LSystem::next, the `while i < self.state.len()` loop.                   *)
(***************************************************************************)
\* the loop with the cursor moved one further after a splice, so that the
\* atom that followed the replaced one is skipped
RECURSIVE ScanLoop_SkipAfter(_, _, _, _, _)
ScanLoop_SkipAfter(rules, st, i, expanded, tr) ==
    IF ~(i < Len(st))
    THEN [state |-> st, i |-> i, expanded |-> expanded, panic |-> FALSE,
          trace |-> Append(tr, Event("exit", i, st, ""))]
    ELSE LET atom == st[i + 1]
             production == MapRules_map(rules, atom)
             tr1 == tr \o <<Event("iter", i, st, atom), Event("map", i, st, atom)>>
         IN  IF IsSome(production)
             THEN LET removed == VecRemove(st, i)
                      ins == InsertAll(removed, i, Unwrap(production),
                                       Append(tr1, Event("remove", i, st, atom)))
                  IN  IF ins.panic
                      THEN [state |-> ins.state, i |-> ins.i, expanded |-> expanded,
                            panic |-> TRUE, trace |-> ins.trace]
                      ELSE ScanLoop_SkipAfter(rules, ins.state, ins.i + 1, TRUE, ins.trace)
             ELSE ScanLoop_SkipAfter(rules, st, i + 1, expanded, tr1)

\* the loop with expanded set in the body of the for loop, so that only an
\* inserted atom counts as an expansion
RECURSIVE ScanLoop_ExpandedOnInsert(_, _, _, _, _)
ScanLoop_ExpandedOnInsert(rules, st, i, expanded, tr) ==
    IF ~(i < Len(st))
    THEN [state |-> st, i |-> i, expanded |-> expanded, panic |-> FALSE,
          trace |-> Append(tr, Event("exit", i, st, ""))]
    ELSE LET atom == st[i + 1]
             production == MapRules_map(rules, atom)
             tr1 == tr \o <<Event("iter", i, st, atom), Event("map", i, st, atom)>>
         IN  IF IsSome(production)
             THEN LET removed == VecRemove(st, i)
                      ins == InsertAll(removed, i, Unwrap(production),
                                       Append(tr1, Event("remove", i, st, atom)))
                  IN  IF ins.panic
                      THEN [state |-> ins.state, i |-> ins.i, expanded |-> expanded,
                            panic |-> TRUE, trace |-> ins.trace]
                      ELSE ScanLoop_ExpandedOnInsert(rules, ins.state, ins.i, (expanded \/ Unwrap(production) # <<>>), ins.trace)
             ELSE ScanLoop_ExpandedOnInsert(rules, st, i + 1, expanded, tr1)

RECURSIVE ScanLoop(_, _, _, _, _)
ScanLoop(rules, st, i, expanded, tr) ==
    IF ~(i < Len(st))
    THEN [state |-> st, i |-> i, expanded |-> expanded, panic |-> FALSE,
          trace |-> Append(tr, Event("exit", i, st, ""))]
    ELSE LET atom == st[i + 1]
             production == MapRules_map(rules, atom)
             tr1 == tr \o <<Event("iter", i, st, atom), Event("map", i, st, atom)>>
         IN  IF IsSome(production)
             THEN LET removed == VecRemove(st, i)
                      ins == InsertAll(removed, i, Unwrap(production),
                                       Append(tr1, Event("remove", i, st, atom)))
                  IN  IF ins.panic
                      THEN [state |-> ins.state, i |-> ins.i, expanded |-> expanded,
                            panic |-> TRUE, trace |-> ins.trace]
                      ELSE ScanLoop(rules, ins.state, ins.i, TRUE, ins.trace)
             ELSE ScanLoop(rules, st, i + 1, expanded, tr1)

(***************************************************************************)
(* What a caller holds of a Vec the engine returned: an owned buffer       *)
(* (Vec::clone), or, were the engine to hand out its own storage, a view   *)
(* of the engine's state.                                                  *)
(***************************************************************************)
\* a result that borrows the engine's state instead of copying it
Borrow(v) == [own |-> FALSE, buf |-> <<>>]

Clone(v) == [own |-> TRUE, buf |-> v]

\* what the holder of h, a result of engine e, reads in the state s of e
ViewIn(s, h) == IF h.own THEN h.buf ELSE s

View(e, h) == ViewIn(sys[e].state, h)

\* a constructor that takes over the state of an engine built before it
LSystem_new_Shared(rules, axiom) ==
    [built |-> TRUE, rules |-> rules, axiom |-> axiom,
     state |-> IF \E f \in DOMAIN sys : sys[f].built
               THEN sys[CHOOSE f \in DOMAIN sys : sys[f].built].state
               ELSE axiom]

\* a constructor that leaves the state empty
LSystem_new_EmptyState(rules, axiom) ==
    [built |-> TRUE, rules |-> rules, axiom |-> axiom, state |-> <<>>]

\* LSystem::new(rules, axiom)
LSystem_new(rules, axiom) ==
    [built |-> TRUE, rules |-> rules, axiom |-> axiom, state |-> axiom]

\* a reset that leaves the state as it is
LSystem_reset_Keep(s) == s

\* LSystem::reset
LSystem_reset(s) == [s EXCEPT !.state = s.axiom]

\* a next that returns the state whether or not an atom was expanded
LSystem_next_AlwaysSome(s) ==
    LET r == ScanLoop(s.rules, s.state, 0, FALSE, <<>>)
    IN  [sys |-> [s EXCEPT !.state = r.state],
         result |-> Some(Clone(r.state)),
         panic |-> r.panic,
         trace |-> r.trace]

\* a next that decides the end signal by comparing the states
LSystem_next_ByChange(s) ==
    LET r == ScanLoop(s.rules, s.state, 0, FALSE, <<>>)
    IN  [sys |-> [s EXCEPT !.state = r.state],
         result |-> IF r.state # s.state THEN Some(Clone(r.state)) ELSE None,
         panic |-> r.panic,
         trace |-> r.trace]

\* a next that works on the axiom's buffer too, as if state and axiom were
\* one Vec
LSystem_next_SharedAxiom(s) ==
    LET r == ScanLoop(s.rules, s.state, 0, FALSE, <<>>)
    IN  [sys |-> [s EXCEPT !.state = r.state, !.axiom = r.state],
         result |-> IF r.expanded THEN Some(Clone(r.state)) ELSE None,
         panic |-> r.panic,
         trace |-> r.trace]

\* LSystem::next: the engine after the call, the result, whether the call
\* panicked, and the trace of the scan
LSystem_next(s) ==
    LET r == ScanLoop(s.rules, s.state, 0, FALSE, <<>>)
    IN  [sys |-> [s EXCEPT !.state = r.state],
         result |-> IF r.expanded THEN Some(Clone(r.state)) ELSE None,
         panic |-> r.panic,
         trace |-> r.trace]

Unbuilt == [built |-> FALSE, rules |-> MapRules_new, axiom |-> <<>>, state |-> <<>>]

(***************************************************************************)
(* The rule-set machine: a MapRules is created empty and set and map are   *)
(* called on it.                                                           *)
(***************************************************************************)
EngineIdle ==
    /\ inAxiom = <<>>
    /\ sys = [e \in Engines |-> Unbuilt]
    /\ hist = [e \in Engines |-> <<>>]
    /\ seen = [e \in Engines |-> <<>>]
    /\ first = [e \in Engines |-> <<>>]
    /\ old = [e \in Engines |-> <<>>]
    /\ scan = [e \in Engines |-> <<>>]
    /\ lastOp = [e \in Engines |-> "none"]
    /\ wasReset = [e \in Engines |-> FALSE]

InitRules ==
    /\ productions = MapRules_new
    /\ setLog = <<>>
    /\ ret = [op |-> "new", key |-> "A", val |-> None, before |-> MapRules_new]
    /\ EngineIdle

Set(k, v) ==
    /\ Len(setLog) < MaxSets
    /\ LET r == MapRules_set(productions, k, v)
       IN  /\ productions' = r.map
           /\ ret' = [op |-> "set", key |-> k, val |-> r.old, before |-> productions]
    /\ setLog' = Append(setLog, <<k, v>>)
    /\ UNCHANGED engineVars

Map(k) ==
    /\ ret' = [op |-> "map", key |-> k, val |-> MapRules_map(productions, k),
               before |-> productions]
    /\ UNCHANGED <<productions, setLog>>
    /\ UNCHANGED engineVars

NextRules ==
    \/ \E k \in Atoms, v \in SeqsUpTo(MaxSetLen) : Set(k, v)
    \/ \E k \in Atoms : Map(k)

SpecRules == InitRules /\ [][NextRules]_vars

(***************************************************************************)
(* The engine machine: a caller has a rule set and an axiom, builds the    *)
(* engines from them and calls next and reset on each.                     *)
(***************************************************************************)
Init ==
    /\ productions \in RuleSets
    /\ setLog = <<>>
    /\ ret = [op |-> "new", key |-> "A", val |-> None, before |-> MapRules_new]
    /\ inAxiom \in SeqsUpTo(MaxAxiom)
    /\ sys = [e \in Engines |-> Unbuilt]
    /\ hist = [e \in Engines |-> <<>>]
    /\ seen = [e \in Engines |-> <<>>]
    /\ first = [e \in Engines |-> <<>>]
    /\ old = [e \in Engines |-> <<>>]
    /\ scan = [e \in Engines |-> <<>>]
    /\ lastOp = [e \in Engines |-> "none"]
    /\ wasReset = [e \in Engines |-> FALSE]

New(e) ==
    /\ ~sys[e].built
    /\ sys' = [sys EXCEPT ![e] = LSystem_new(productions, inAxiom)]
    /\ lastOp' = [lastOp EXCEPT ![e] = "new"]
    /\ old' = [old EXCEPT ![e] = inAxiom]
    /\ UNCHANGED <<inAxiom, hist, seen, first, scan, wasReset>>
    /\ UNCHANGED ruleVars

Advance(e) ==
    /\ sys[e].built
    /\ Len(hist[e]) < MaxCalls
    /\ Len(sys[e].state) <= MaxLen
    /\ LET r == LSystem_next(sys[e])
           value == IF IsSome(r.result) THEN Some(ViewIn(r.sys.state, Unwrap(r.result)))
                    ELSE None
       IN  /\ sys' = [sys EXCEPT ![e] = r.sys]
           /\ hist' = [hist EXCEPT ![e] = Append(@, r.result)]
           /\ seen' = [seen EXCEPT ![e] = Append(@, value)]
           /\ first' = [first EXCEPT ![e] =
                           IF @ = <<>> /\ IsSome(r.result)
                           THEN <<[h |-> Unwrap(r.result), v |-> Unwrap(value)]>>
                           ELSE @]
           /\ scan' = [scan EXCEPT ![e] = r.trace]
           /\ lastOp' = [lastOp EXCEPT ![e] = IF r.panic THEN "panic" ELSE "next"]
    /\ old' = [old EXCEPT ![e] = sys[e].state]
    /\ UNCHANGED <<inAxiom, wasReset>>
    /\ UNCHANGED ruleVars

Reset(e) ==
    /\ sys[e].built
    /\ sys' = [sys EXCEPT ![e] = LSystem_reset(@)]
    /\ hist' = [hist EXCEPT ![e] = <<>>]
    /\ seen' = [seen EXCEPT ![e] = <<>>]
    /\ scan' = [scan EXCEPT ![e] = <<>>]
    /\ old' = [old EXCEPT ![e] = sys[e].axiom]
    /\ lastOp' = [lastOp EXCEPT ![e] = "reset"]
    /\ wasReset' = [wasReset EXCEPT ![e] = TRUE]
    /\ UNCHANGED <<inAxiom, first>>
    /\ UNCHANGED ruleVars

Next ==
    \/ \E e \in Engines : New(e)
    \/ \E e \in Engines : Advance(e)
    \/ \E e \in Engines : Reset(e)

Spec == Init /\ [][Next]_vars

(***************************************************************************)
(* The reference rewrite of the documentation: every atom is mapped to its *)
(* production, or to itself when it has none, and the results are          *)
(* concatenated in order.                                                  *)
(***************************************************************************)
HasRule(r, a) == a \in DOMAIN r

ProductionOrSelf(r, a) == IF HasRule(r, a) THEN r[a] ELSE <<a>>

RECURSIVE Rewrite(_, _)
Rewrite(r, s) ==
    IF s = <<>> THEN <<>> ELSE ProductionOrSelf(r, Head(s)) \o Rewrite(r, Tail(s))

AllTerminal(r, s) == \A j \in 1..Len(s) : ~HasRule(r, s[j])

Last(s) == s[Len(s)]

Front(s) == SubSeq(s, 1, Len(s) - 1)

Min(a, b) == IF a <= b THEN a ELSE b

\* the engine e has been built and its last call was next
Advanced(e) == sys[e].built /\ lastOp[e] = "next"

\* the algae system of the crate's documentation and of tests::test_algae_str
AlgaeRules == [a \in {"A", "B"} |-> IF a = "A" THEN <<"A", "B">> ELSE <<"A">>]

AlgaeGen ==
    << <<"A", "B">>,
       <<"A", "B", "A">>,
       <<"A", "B", "A", "A", "B">>,
       <<"A", "B", "A", "A", "B", "A", "B", "A">> >>

(***************************************************************************)
(* C1: one call of next leaves the state equal to the reference rewrite of *)
(* the state it was called on; for the algae rules and the axiom A the     *)
(* generations 1 to 4 are AB, ABA, ABAAB, ABAABABA, each returned by the   *)
(* call that produced it.                                                  *)
(***************************************************************************)
C1_AdvanceIsRewrite ==
    \A e \in Engines :
        /\ Advanced(e) => sys[e].state = Rewrite(sys[e].rules, old[e])
        /\ ( /\ Advanced(e)
             /\ sys[e].rules = AlgaeRules
             /\ sys[e].axiom = <<"A">>
             /\ Len(hist[e]) \in 1..4 )
           => /\ sys[e].state = AlgaeGen[Len(hist[e])]
              /\ Last(seen[e]) = Some(AlgaeGen[Len(hist[e])])

\* the fourth generation of the algae system has been produced
C1_Witness ==
    \E e \in Engines :
        /\ Advanced(e)
        /\ sys[e].rules = AlgaeRules
        /\ sys[e].axiom = <<"A">>
        /\ Len(hist[e]) = 4
        /\ sys[e].state = AlgaeGen[4]
        /\ old[e] = AlgaeGen[3]

(***************************************************************************)
(* C2: from a state all of whose atoms are terminal, every step other than *)
(* a reset leaves the state as it is, and every call of next made there    *)
(* returns None; so the end signal is returned on that call and on every   *)
(* later one until reset is called.                                        *)
(***************************************************************************)
C2_FixedPointStays ==
    [][ \A e \in Engines :
          ( /\ sys[e].built
            /\ AllTerminal(sys[e].rules, sys[e].state)
            /\ ~Reset(e) )
          => /\ sys'[e].state = sys[e].state
             /\ AllTerminal(sys'[e].rules, sys'[e].state)
             /\ hist'[e] # hist[e] => Last(hist'[e]) = None ]_vars

\* an engine that produced a generation and then returned None twice
C2_Witness ==
    \E e \in Engines :
        /\ Advanced(e)
        /\ Len(hist[e]) >= 3
        /\ IsSome(hist[e][Len(hist[e]) - 2])
        /\ hist[e][Len(hist[e]) - 1] = None
        /\ Last(hist[e]) = None
        /\ sys[e].state = old[e]
        /\ sys[e].state # <<>>

(***************************************************************************)
(* C3: right after reset the state is the axiom given at construction, and *)
(* the results of the calls of next made since the reset are, call by      *)
(* call, those of an engine built from the same rule set and axiom that    *)
(* was never reset.                                                        *)
(***************************************************************************)
C3_ResetIsFresh ==
    \A e \in Engines :
        /\ (sys[e].built /\ lastOp[e] = "reset") => sys[e].state = inAxiom
        /\ \A f \in Engines :
             (sys[e].built /\ sys[f].built /\ wasReset[e] /\ ~wasReset[f])
             => \A k \in 1..Min(Len(seen[e]), Len(seen[f])) : seen[e][k] = seen[f][k]

\* a reset engine and a fresh one have both been advanced twice, the state
\* of the reset engine differing from the axiom before the reset
C3_Witness ==
    \E e \in Engines, f \in Engines :
        /\ sys[e].built /\ sys[f].built
        /\ wasReset[e] /\ ~wasReset[f]
        /\ Len(seen[e]) >= 2 /\ Len(seen[f]) >= 2
        /\ IsSome(seen[e][2])
        /\ first[e] # <<>>
        /\ Unwrap(seen[e][1]) # inAxiom

(***************************************************************************)
(* C4: next returns Some exactly when an atom of the state it was called   *)
(* on has a production, and the sequence returned is then the state after  *)
(* the call; otherwise it returns None, as it does on the empty state.     *)
(***************************************************************************)
C4_SomeIffExpanded ==
    \A e \in Engines :
        Advanced(e) =>
            /\ IsSome(Last(hist[e])) <=>
                   (\E j \in 1..Len(old[e]) : HasRule(sys[e].rules, old[e][j]))
            /\ IsSome(Last(hist[e])) => Last(seen[e]) = Some(sys[e].state)
            /\ ~IsSome(Last(hist[e])) => Last(seen[e]) = None
            /\ old[e] = <<>> => Last(hist[e]) = None

\* a call returned Some on a state holding a terminal atom and an atom
\* with a production, and the next call, on the empty state, returned None
C4_Witness ==
    \E e \in Engines :
        /\ Advanced(e)
        /\ Len(hist[e]) >= 2
        /\ IsSome(hist[e][Len(hist[e]) - 1])
        /\ Last(hist[e]) = None
        /\ old[e] = <<>>
        /\ HasRule(sys[e].rules, "A")

\* the sum over the atoms of s of the length of the production, or 1
RECURSIVE SumWidth(_, _)
SumWidth(r, s) ==
    IF s = <<>> THEN 0
    ELSE (IF HasRule(r, Head(s)) THEN Len(r[Head(s)]) ELSE 1) + SumWidth(r, Tail(s))

(***************************************************************************)
(* C5: after one call of next the length of the state is the sum, over the *)
(* atoms of the old state, of the length of the atom's production (0 for   *)
(* an empty one), or 1 for an atom without a production.                   *)
(***************************************************************************)
C5_LengthAccounting ==
    \A e \in Engines :
        Advanced(e) => Len(sys[e].state) = SumWidth(sys[e].rules, old[e])

\* a call on a state holding an atom with an empty production, an atom with
\* a production of two atoms and their neighbours
C5_Witness ==
    \E e \in Engines :
        /\ Advanced(e)
        /\ Len(old[e]) >= 3
        /\ \E j \in 1..Len(old[e]) :
               HasRule(sys[e].rules, old[e][j]) /\ sys[e].rules[old[e][j]] = <<>>
        /\ \E j \in 1..Len(old[e]) :
               HasRule(sys[e].rules, old[e][j]) /\ Len(sys[e].rules[old[e][j]]) = 2

(***************************************************************************)
(* C6: map returns None for an atom without a production, and every such   *)
(* atom of the old state stands in the new state with the same value,      *)
(* after the rewrite of the atoms on its left and before the rewrite of    *)
(* the atoms on its right.                                                 *)
(***************************************************************************)
C6_TerminalPassThrough ==
    \A e \in Engines :
        Advanced(e) =>
            \A j \in 1..Len(old[e]) :
                ~HasRule(sys[e].rules, old[e][j]) =>
                    LET p == Len(Rewrite(sys[e].rules, SubSeq(old[e], 1, j - 1))) + 1
                        new == sys[e].state
                    IN  /\ MapRules_map(sys[e].rules, old[e][j]) = None
                        /\ p <= Len(new)
                        /\ new[p] = old[e][j]
                        /\ SubSeq(new, 1, p - 1) =
                               Rewrite(sys[e].rules, SubSeq(old[e], 1, j - 1))
                        /\ SubSeq(new, p + 1, Len(new)) =
                               Rewrite(sys[e].rules, SubSeq(old[e], j + 1, Len(old[e])))

\* a terminal atom with an expanded atom on each side, moved by the splice
C6_Witness ==
    \E e \in Engines :
        /\ Advanced(e)
        /\ \E j \in 2..(Len(old[e]) - 1) :
               /\ ~HasRule(sys[e].rules, old[e][j])
               /\ HasRule(sys[e].rules, old[e][j - 1])
               /\ HasRule(sys[e].rules, old[e][j + 1])
               /\ Len(Rewrite(sys[e].rules, SubSeq(old[e], 1, j - 1))) + 1 # j

RECURSIVE LastSetFor(_, _)
LastSetFor(log, k) ==
    IF log = <<>> THEN None
    ELSE IF Last(log)[1] = k THEN Some(Last(log)[2])
    ELSE LastSetFor(Front(log), k)

(***************************************************************************)
(* C8: set(k, v) returns the production k had before, or None when it had  *)
(* none; after it the production of k is v and that of every other atom    *)
(* is what it was.                                                         *)
(***************************************************************************)
C8_SetReturnsPrevious ==
    ret.op = "set" =>
        /\ ret.key = Last(setLog)[1]
        /\ ret.val = LastSetFor(Front(setLog), ret.key)
        /\ MapRules_map(productions, ret.key) = Some(Last(setLog)[2])
        /\ \A a \in Atoms \ {ret.key} :
               MapRules_map(productions, a) = MapRules_map(ret.before, a)

\* a set that overwrote a different production while the other atom had one
C8_Witness ==
    /\ ret.op = "set"
    /\ IsSome(ret.val)
    /\ Unwrap(ret.val) # Last(setLog)[2]
    /\ \E a \in Atoms \ {ret.key} : a \in DOMAIN productions

(***************************************************************************)
(* C9: after any calls of set, map(k) returns Some of the sequence of the  *)
(* most recent set of k and None when k was never set; map leaves the rule *)
(* set as it is, so a repeated map returns the same result.                *)
(***************************************************************************)
C9_MapReturnsLastSet ==
    /\ \A a \in Atoms : MapRules_map(productions, a) = LastSetFor(setLog, a)
    /\ ret.op = "map" =>
           /\ ret.val = LastSetFor(setLog, ret.key)
           /\ productions = ret.before
           /\ MapRules_map(productions, ret.key) = ret.val

\* map of an atom that was set twice, the second time to the empty sequence
C9_Witness ==
    /\ ret.op = "map"
    /\ Len(setLog) = 3
    /\ setLog[1][1] = ret.key
    /\ setLog[3][1] = ret.key
    /\ setLog[1][2] # setLog[3][2]
    /\ ret.val = Some(<<>>)
    /\ \E a \in Atoms : a \notin DOMAIN productions

IsIter(ev) == ev.op \in {"iter", "exit"}

Iters(e) == SelectSeq(scan[e], IsIter)

\* the rule-set lookups of the last call of next on e
IsMap(ev) == ev.op = "map"

Lookups(e) == SelectSeq(scan[e], IsMap)

(***************************************************************************)
(* C11: in one call of next the rule set is looked up once for each atom   *)
(* of the old state, from left to right, the j-th lookup being made with   *)
(* the cursor just after what the first j - 1 atoms were rewritten to, so  *)
(* never on an atom inserted by this call; after a production of k atoms   *)
(* was spliced in at cursor i, the cursor is i + k.                        *)
(***************************************************************************)
C11_OneLookupPerOldAtom ==
    \A e \in Engines :
        Advanced(e) =>
            LET L == Lookups(e)
                It == Iters(e)
            IN  /\ Len(L) = Len(old[e])
                /\ Len(It) = Len(old[e]) + 1
                /\ \A j \in 1..Len(old[e]) :
                       /\ L[j].atom = old[e][j]
                       /\ L[j].i = Len(Rewrite(sys[e].rules, SubSeq(old[e], 1, j - 1)))
                       /\ It[j].i = L[j].i
                       /\ HasRule(sys[e].rules, old[e][j]) =>
                              It[j + 1].i = It[j].i + Len(sys[e].rules[old[e][j]])
                       /\ ~HasRule(sys[e].rules, old[e][j]) => It[j + 1].i = It[j].i + 1

\* a production of two atoms that both have productions was spliced in
\* before another atom of the old state
C11_Witness ==
    \E e \in Engines :
        /\ Advanced(e)
        /\ Len(old[e]) >= 2
        /\ HasRule(sys[e].rules, old[e][1])
        /\ Len(sys[e].rules[old[e][1]]) = 2
        /\ \A a \in Atoms : HasRule(sys[e].rules, a)
        /\ sys[e].state # Rewrite(sys[e].rules, sys[e].state)

(***************************************************************************)
(* C12: next never fails: no call panics, and at every step of the scan    *)
(* the cursor i is between 0 and the length of the state, the read of      *)
(* state[i] and remove(i) are made with i below the length, and every      *)
(* insert(i, a) with i at most the length.                                 *)
(***************************************************************************)
C12_IndexesInBounds ==
    \A e \in Engines :
        /\ lastOp[e] # "panic"
        /\ \A k \in 1..Len(scan[e]) :
               LET ev == scan[e][k]
               IN  /\ ev.op # "panic"
                   /\ 0 <= ev.i /\ ev.i <= ev.len
                   /\ ev.op \in {"iter", "map", "remove"} => ev.i < ev.len
                   /\ ev.op = "insert" => ev.i <= ev.len

\* a call that removed the last atom of the state, inserted at the end of
\* the state, and removed an atom with an empty production
C12_Witness ==
    \E e \in Engines :
        /\ Advanced(e)
        /\ \E k \in 1..Len(scan[e]) : scan[e][k].op = "insert" /\ scan[e][k].i = scan[e][k].len
        /\ \E k \in 1..Len(scan[e]) :
               scan[e][k].op = "remove" /\ scan[e][k].i = scan[e][k].len - 1
        /\ \E j \in 1..Len(old[e]) :
               HasRule(sys[e].rules, old[e][j]) /\ sys[e].rules[old[e][j]] = <<>>
        /\ \E j \in 1..Len(old[e]) :
               HasRule(sys[e].rules, old[e][j]) /\ Len(sys[e].rules[old[e][j]]) = 1

(***************************************************************************)
(* C13: the scan loop of next ends: the number of atoms not yet scanned,   *)
(* the length of the state minus the cursor, is the length of the old      *)
(* state at the first test of the loop, is one less at each following      *)
(* test, and is 0 at the test that ends the loop.                          *)
(***************************************************************************)
C13_ScanTerminates ==
    \A e \in Engines :
        Advanced(e) =>
            LET It == Iters(e)
            IN  /\ Len(It) = Len(old[e]) + 1
                /\ It[1].len - It[1].i = Len(old[e])
                /\ \A j \in 1..(Len(It) - 1) :
                       It[j + 1].len - It[j + 1].i = (It[j].len - It[j].i) - 1
                /\ Last(scan[e]).op = "exit"
                /\ Last(scan[e]).len - Last(scan[e]).i = 0

\* a scan in which the state grew, and in which the cursor stayed where it
\* was after an atom with an empty production
C13_Witness ==
    \E e \in Engines :
        /\ Advanced(e)
        /\ \E j \in 1..(Len(Iters(e)) - 1) :
               Iters(e)[j + 1].i = Iters(e)[j].i /\ Iters(e)[j + 1].len < Iters(e)[j].len
        /\ \E j \in 1..(Len(Iters(e)) - 1) : Iters(e)[j + 1].len > Iters(e)[j].len

(***************************************************************************)
(* C14: next and reset leave the axiom and the rule set as they were given *)
(* to new: the axiom of a built engine is the axiom it was built from and  *)
(* every lookup in its rule set returns what it returned at construction.  *)
(***************************************************************************)
C14_AxiomAndRulesKept ==
    \A e \in Engines :
        sys[e].built =>
            /\ sys[e].axiom = inAxiom
            /\ \A a \in Atoms :
                   MapRules_map(sys[e].rules, a) = MapRules_map(productions, a)

\* an engine that was advanced, reset and advanced twice again, its state
\* no longer the axiom
C14_Witness ==
    \E e \in Engines :
        /\ Advanced(e)
        /\ wasReset[e]
        /\ first[e] # <<>>
        /\ Len(hist[e]) >= 2
        /\ IsSome(Last(hist[e]))
        /\ sys[e].state # sys[e].axiom
        /\ sys[e].axiom # <<>>

\* the n-th generation of s under the reference rewrite
RECURSIVE Generation(_, _, _)
Generation(r, s, n) == IF n = 0 THEN s ELSE Generation(r, Rewrite(r, s), n - 1)

\* the number of Some results among the results h
CountSome(h) == Cardinality({k \in 1..Len(h) : IsSome(h[k])})

(***************************************************************************)
(* C15: in every reachable state a built engine holds the n-th generation  *)
(* of the axiom under the reference rewrite, n being the number of calls   *)
(* of next that returned Some since construction or the last reset.        *)
(***************************************************************************)
C15_StateIsNthGeneration ==
    \A e \in Engines :
        sys[e].built =>
            sys[e].state = Generation(productions, inAxiom, CountSome(hist[e]))

\* after a reset, two generations and then the end signal
C15_Witness ==
    \E e \in Engines :
        /\ Advanced(e)
        /\ wasReset[e]
        /\ Len(hist[e]) = 3
        /\ CountSome(hist[e]) = 2
        /\ sys[e].state # inAxiom
        /\ sys[e].state # Rewrite(productions, inAxiom)

EmptyRule(r, a) == HasRule(r, a) /\ r[a] = <<>>

IsInsert(ev) == ev.op = "insert"

\* the sum over the atoms of s of the length of the atom's production
RECURSIVE SumInserted(_, _)
SumInserted(r, s) ==
    IF s = <<>> THEN 0
    ELSE (IF HasRule(r, Head(s)) THEN Len(r[Head(s)]) ELSE 0) + SumInserted(r, Tail(s))

(***************************************************************************)
(* C16: an atom whose production is the empty sequence is removed and      *)
(* nothing is inserted for it; the cursor stays at its index and the scan  *)
(* goes on with the atom that followed it; the call returns Some, and      *)
(* Some of the empty sequence when every atom of the old state had an      *)
(* empty production.                                                       *)
(***************************************************************************)
C16_EmptyProductionDeletes ==
    \A e \in Engines :
        Advanced(e) =>
            LET It == Iters(e)
                r == sys[e].rules
            IN  /\ Len(SelectSeq(scan[e], IsInsert)) = SumInserted(r, old[e])
                /\ \A j \in 1..Len(old[e]) :
                       EmptyRule(r, old[e][j]) =>
                           /\ It[j + 1].i = It[j].i
                           /\ It[j + 1].len = It[j].len - 1
                           /\ j < Len(old[e]) => It[j + 1].atom = old[e][j + 1]
                           /\ IsSome(Last(hist[e]))
                /\ (old[e] # <<>> /\ \A j \in 1..Len(old[e]) : EmptyRule(r, old[e][j]))
                   => /\ Last(seen[e]) = Some(<<>>)
                      /\ sys[e].state = <<>>

\* a state of two atoms, each with an empty production, was rewritten to
\* the empty sequence
C16_Witness ==
    \E e \in Engines :
        /\ Advanced(e)
        /\ Len(old[e]) >= 2
        /\ \A j \in 1..Len(old[e]) : EmptyRule(sys[e].rules, old[e][j])
        /\ Last(seen[e]) = Some(<<>>)

SelfRule(r, a) == HasRule(r, a) /\ r[a] = <<a>>

HasSelfAtom(r, s) == \E j \in 1..Len(s) : SelfRule(r, s[j])

\* every atom of s that has a production reproduces itself
OnlySelfRules(r, s) == \A j \in 1..Len(s) : HasRule(r, s[j]) => SelfRule(r, s[j])

(***************************************************************************)
(* C17, as stated: when an atom of the state next is called on has a       *)
(* production that reproduces the atom itself, next returns Some of the    *)
(* old state.                                                              *)
(***************************************************************************)
C17_SelfRuleReturnsOldState ==
    \A e \in Engines :
        (Advanced(e) /\ HasSelfAtom(sys[e].rules, old[e])) =>
            /\ IsSome(Last(hist[e]))
            /\ Last(seen[e]) = Some(old[e])

(***************************************************************************)
(* C17, amended: from a state holding an atom whose production reproduces  *)
(* the atom itself, every step other than a reset leaves such an atom in   *)
(* the state and every call of next returns Some, so the end signal is     *)
(* never returned; the result is the old state when every atom of the      *)
(* state that has a production reproduces itself.                          *)
(***************************************************************************)
C17_SelfRuleNeverEnds ==
    [][ \A e \in Engines :
          ( /\ sys[e].built
            /\ HasSelfAtom(sys[e].rules, sys[e].state)
            /\ ~Reset(e) )
          => /\ HasSelfAtom(sys'[e].rules, sys'[e].state)
             /\ hist'[e] # hist[e] =>
                    /\ IsSome(Last(hist'[e]))
                    /\ OnlySelfRules(sys[e].rules, sys[e].state) =>
                           /\ Last(seen'[e]) = Some(sys[e].state)
                           /\ sys'[e].state = sys[e].state ]_vars

\* an engine whose state holds an atom that reproduces itself returned its
\* unchanged state at each of four calls
C17_Witness ==
    \E e \in Engines :
        /\ Advanced(e)
        /\ HasSelfAtom(sys[e].rules, old[e])
        /\ OnlySelfRules(sys[e].rules, old[e])
        /\ Len(hist[e]) = 4
        /\ \A k \in 1..4 : seen[e][k] = Some(old[e])
        /\ \E j \in 1..Len(old[e]) : ~HasRule(sys[e].rules, old[e][j])

====
